---- MODULE Spec2Model ----
(***************************************************************************)
(* A model of src/spacenet.py: the GeoTIFF / PAN / PSRGB constructors, the *)
(* GeoJSON road overlay and the plot_spacenet driver.                      *)
(*                                                                         *)
(* Numbers.  Raster metadata and pixels are small integers, which float64  *)
(* holds exactly, so np.zeros(...) storage is modelled by the integers     *)
(* themselves.  The two places where float64 leaves the integers are       *)
(* modelled by what they do: the +/-inf of the plotting bounds (Fin,       *)
(* PosInf, NegInf) and the true division of _proc_rgb (np_divide, with     *)
(* numpy's nan / inf results for a zero divisor).                          *)
(***************************************************************************)
EXTENDS Integers, Sequences, FiniteSets, TLC

VARIABLES
    pc,         \* position in plot_spacenet (or "construct" for a lone constructor)
    err,        \* the exception that ended the run, "none" while running
    n_tif,      \* len(tif_paths)
    n_json,     \* len(json_paths)
    i,          \* number of tif paths the first loop has taken
    j,          \* number of json paths the second loop has taken
    self,       \* the GeoTIFF object inside its __post_init__, else NoTile
    tif,        \* the object bound to the name tif, else NoTile
    x_min,
    x_max,
    y_min,
    y_max,
    gj,         \* the feature list of the GeoJSON bound to the name gj
    ax_images,  \* what ax.imshow was given, in call order
    ax_lines,   \* the lines ax.plot drew, in call order
    xlim,       \* what ax.set_xlim was given, <<>> before the call
    ylim        \* what ax.set_ylim was given, <<>> before the call

vars == <<pc, err, n_tif, n_json, i, j, self, tif, x_min, x_max, y_min, y_max,
          gj, ax_images, ax_lines, xlim, ylim>>

---------------------------------------------------------------------------
(* Bounds of the model. *)

\* longest list of tif paths
MaxTiles == 2
\* longest list of json paths
MaxJson == 1
\* most features in one GeoJSON document
MaxFeatures == 2
\* largest RasterXSize / RasterYSize of the enumerated rasters
MaxRes == 2
\* largest RasterCount of the enumerated rasters
MaxBands == 2

---------------------------------------------------------------------------
(* float64 values that are not plain integers. *)

Fin(n) == [inf |-> 0, v |-> n]
PosInf == [inf |-> 1, v |-> 0]
NegInf == [inf |-> -1, v |-> 0]

\* a < b on floats that may be infinite
Lt(a, b) ==
    \/ a.inf < b.inf
    \/ a.inf = 0 /\ b.inf = 0 /\ a.v < b.v

Le(a, b) == ~Lt(b, a)

\* Python's builtin min(a, b): a unless b < a
py_min(a, b) == IF Lt(b, a) THEN b ELSE a

\* Python's builtin max(a, b): a unless b > a
py_max(a, b) == IF Lt(a, b) THEN b ELSE a

Abs(n) == IF n < 0 THEN -n ELSE n

RECURSIVE GCD(_, _)
GCD(a, b) == IF b = 0 THEN a ELSE GCD(b, a % b)

NaN == [k |-> "nan", n |-> 0, d |-> 1]
Ratio(n, d) ==
    LET g == GCD(Abs(n), Abs(d))
        s == IF d < 0 THEN -1 ELSE 1
    IN  [k |-> "fin", n |-> s * (n \div g), d |-> s * (d \div g)]

\* numpy's elementwise n / d on float64: a zero divisor gives nan or +/-inf
\* (with a RuntimeWarning), it does not raise
np_divide(n, d) ==
    IF d # 0 THEN Ratio(n, d)
    ELSE IF n = 0 THEN NaN
    ELSE IF n > 0 THEN [k |-> "inf", n |-> 1, d |-> 1]
    ELSE [k |-> "inf", n |-> -1, d |-> 1]

SetMin(S) == CHOOSE m \in S : \A s \in S : m <= s
SetMax(S) == CHOOSE m \in S : \A s \in S : m >= s

---------------------------------------------------------------------------
(* Raster files, as gdal.Open presents them. *)

\* a RasterYSize x RasterXSize grid (rows x columns) holding seed row-major,
\* repeated
Grid(seed, W, H) ==
    [r \in 1..H |-> [c \in 1..W |->
        seed[(((r - 1) * W + (c - 1)) % Len(seed)) + 1]]]

Raster(gt, W, H, seeds) ==
    [RasterCount |-> Len(seeds), RasterXSize |-> W, RasterYSize |-> H,
     GeoTransform |-> gt,
     data |-> [b \in 1..Len(seeds) |-> Grid(seeds[b], W, H)]]

\* band.ReadAsArray() of band number b: RasterYSize rows of RasterXSize values
ReadAsArray(gdata, b) == gdata.data[b]

\* the tile of the spec's end-to-end example
ExampleGT == <<100, 2, 0, 200, 0, -2>>
ExampleFile == Raster(ExampleGT, 10, 5, <<<<0, 5, 10>>>>)

\* pixel patterns: a constant channel, two-valued and three-valued channels
Seeds == {<<7>>, <<10, 20>>, <<20, 15, 10>>, <<0, 5, 10>>}

SeedLists == UNION {[1..n -> Seeds] : n \in 1..MaxBands}

GeoTransforms ==
    {ExampleGT, <<0, 1, 0, 0, 0, 1>>, <<3, -1, 1, 3, 1, -1>>, <<0, 0, 0, 0, 0, 0>>}

\* the rasters a lone constructor is run on
TileFiles ==
    {Raster(gt, W, H, s) :
        gt \in GeoTransforms, W \in 1..MaxRes, H \in 1..MaxRes, s \in SeedLists}
    \cup {ExampleFile}

\* the rasters the PAN folders of plot_spacenet hold
PanFiles ==
    {Raster(<<100, 2, 0, 200, 0, -2>>, 2, 2, <<<<0, 5, 10>>>>),
     Raster(<<0, 1, 0, 0, 0, -1>>, 1, 1, <<<<7>>>>),
     Raster(<<0, 1, 0, 0, 0, 1>>, 1, 1, <<<<7>>>>),
     Raster(<<5, -1, 0, 5, 0, -1>>, 2, 2, <<<<10, 20>>>>),
     Raster(<<3, 1, 1, 3, 1, -1>>, 2, 2, <<<<10, 20>>>>),
     Raster(<<0, 1, 0, 0, 0, -1>>, 2, 1, <<<<10, 20>>>>)}

---------------------------------------------------------------------------
(* GeoTIFF objects. *)

NoTile ==
    [kind |-> "none", step |-> "none", gdata |-> <<>>, n_bands |-> 0,
     x_res |-> 0, y_res |-> 0, extent |-> <<>>, bands |-> <<>>, rgb |-> <<>>]

\* GeoTIFF.__post_init__ up to the call of _proc_geotransform
post_init(kind, f) ==
    [kind |-> kind, step |-> "proc_geotransform", gdata |-> f,
     n_bands |-> f.RasterCount, x_res |-> f.RasterXSize,
     y_res |-> f.RasterYSize, extent |-> <<>>, bands |-> <<>>, rgb |-> <<>>]

\* _proc_geotransform with the two resolutions exchanged
proc_geotransform_swapped(gt, x_res, y_res) ==
    <<gt[1],
      gt[1] + y_res * gt[2] + x_res * gt[3],
      gt[4] + y_res * gt[5] + x_res * gt[6],
      gt[4]>>

\* the extent, in the order left, right, bottom, top
proc_geotransform(gt, x_res, y_res) ==
    <<gt[1],
      gt[1] + x_res * gt[2] + y_res * gt[3],
      gt[4] + x_res * gt[5] + y_res * gt[6],
      gt[4]>>

\* numpy's rule for dst[...] = src with 2-D dst of shape <<R, C>> and 2-D src
\* of shape <<sr, sc>>: each src dimension equals dst's or is 1
CanBroadcast(sr, sc, R, C) == (sr = R \/ sr = 1) /\ (sc = C \/ sc = 1)

Broadcast(src, sr, sc, R, C) ==
    [r \in 1..R |-> [c \in 1..C |->
        src[IF sr = 1 THEN 1 ELSE r][IF sc = 1 THEN 1 ELSE c]]]

\* whether every self.bands[i] = band.ReadAsArray() of _read_bands is accepted:
\* the slot has shape (x_res, y_res), the array read has (RasterYSize, RasterXSize)
read_bands_ok(o) ==
    \A b \in 1..o.n_bands :
        CanBroadcast(o.gdata.RasterYSize, o.gdata.RasterXSize, o.x_res, o.y_res)

\* self.bands after _read_bands, when every assignment is accepted
read_bands(o) ==
    [b \in 1..o.n_bands |->
        Broadcast(ReadAsArray(o.gdata, b),
                  o.gdata.RasterYSize, o.gdata.RasterXSize, o.x_res, o.y_res)]

\* self.rgb[:, :, i] = self.bands[i]
rgb_stack(o) ==
    [r \in 1..o.x_res |-> [c \in 1..o.y_res |-> [b \in 1..o.n_bands |->
        o.bands[b][r][c]]]]

ChannelValues(rgb, b) ==
    {rgb[r][c][b] : r \in DOMAIN rgb, c \in DOMAIN rgb[1]}

\* np.min(self.rgb) with the axis argument forgotten: one minimum for all channels
rgb_min_global(rgb, b) ==
    SetMin(UNION {ChannelValues(rgb, k) : k \in DOMAIN rgb[1][1]})

\* np.min(self.rgb, axis=(0, 1))[b] and np.max(self.rgb, axis=(0, 1))[b]
rgb_min(rgb, b) == SetMin(ChannelValues(rgb, b))
rgb_max(rgb, b) == SetMax(ChannelValues(rgb, b))

\* (self.rgb - rgb_min) / (rgb_max - rgb_min)
proc_rgb(o) ==
    LET rgb == rgb_stack(o)
    IN  [r \in 1..o.x_res |-> [c \in 1..o.y_res |-> [b \in 1..o.n_bands |->
            np_divide(rgb[r][c][b] - rgb_min(rgb, b),
                      rgb_max(rgb, b) - rgb_min(rgb, b))]]]

---------------------------------------------------------------------------
(* The constructor, one method per step. *)

ProcGeotransform ==
    /\ pc # "error"
    /\ self.step = "proc_geotransform"
    /\ self' = [self EXCEPT
                  !.extent = proc_geotransform(self.gdata.GeoTransform,
                                               self.x_res, self.y_res),
                  !.step = "read_bands"]
    /\ UNCHANGED <<pc, err, n_tif, n_json, i, j, tif, x_min, x_max, y_min,
                   y_max, gj, ax_images, ax_lines, xlim, ylim>>

ReadBands ==
    /\ pc # "error"
    /\ self.step = "read_bands"
    /\ \/ /\ read_bands_ok(self)
          /\ self' = [self EXCEPT
                        !.bands = read_bands(self),
                        !.step = IF self.kind = "PSRGB" THEN "proc_rgb"
                                 ELSE "constructed"]
          /\ UNCHANGED <<pc, err>>
       \/ /\ ~read_bands_ok(self)
          \* ValueError: could not broadcast input array; the constructor
          \* unwinds and nothing catches it
          /\ self' = NoTile
          /\ pc' = "error"
          /\ err' = "ValueError"
    /\ UNCHANGED <<n_tif, n_json, i, j, tif, x_min, x_max, y_min, y_max, gj,
                   ax_images, ax_lines, xlim, ylim>>

ProcRgb ==
    /\ pc # "error"
    /\ self.step = "proc_rgb"
    /\ self' = [self EXCEPT !.rgb = proc_rgb(self), !.step = "constructed"]
    /\ UNCHANGED <<pc, err, n_tif, n_json, i, j, tif, x_min, x_max, y_min,
                   y_max, gj, ax_images, ax_lines, xlim, ylim>>

\* a lone PAN(path=...) or PSRGB(path=...) on any raster
InitTile ==
    /\ pc = "construct"
    /\ err = "none"
    /\ n_tif = 0 /\ n_json = 0 /\ i = 0 /\ j = 0
    /\ \E kind \in {"PAN", "PSRGB"}, f \in TileFiles : self = post_init(kind, f)
    /\ tif = NoTile
    /\ x_min = PosInf /\ x_max = NegInf /\ y_min = PosInf /\ y_max = NegInf
    /\ gj = <<>> /\ ax_images = <<>> /\ ax_lines = <<>>
    /\ xlim = <<>> /\ ylim = <<>>

NextTile == ProcGeotransform \/ ReadBands \/ ProcRgb

SpecTile == InitTile /\ [][NextTile]_vars

---------------------------------------------------------------------------
(* GeoJSON road features.  json.load gives nested Python lists; depth is    *)
(* the nesting depth of geometry.coordinates: 2 for one flat list of        *)
(* points, 3 for a list of sub-paths.                                       *)

FlatRoad == [depth |-> 2, coordinates |-> <<<<0, 0>>, <<1, 1>>, <<2, 0>>>>]
RaggedMulti ==
    [depth |-> 3,
     coordinates |-> << <<<<0, 0>>, <<1, 1>>>>,
                        <<<<2, 2>>, <<3, 3>>, <<4, 4>>>> >>]
EvenMulti ==
    [depth |-> 3,
     coordinates |-> << <<<<0, 0>>, <<1, 1>>>>, <<<<2, 2>>, <<3, 4>>>> >>]

Roads == {FlatRoad, RaggedMulti, EvenMulti}

\* the feature lists a GeoJSON file may hold
JsonPool == UNION {[1..n -> Roads] : n \in 0..MaxFeatures}

Lens(seqs) == {Len(seqs[k]) : k \in DOMAIN seqs}

\* the shape of np.array(coordinates), or <<>> when numpy raises ValueError
\* (inhomogeneous shape)
np_shape(road) ==
    LET co == road.coordinates
    IN  IF co = <<>> THEN <<0>>
        ELSE IF Cardinality(Lens(co)) # 1 THEN <<>>
        ELSE IF road.depth = 2 THEN <<Len(co), Len(co[1])>>
        ELSE IF co[1] = <<>> THEN <<Len(co), 0>>
        ELSE IF Cardinality(UNION {Lens(co[k]) : k \in DOMAIN co}) # 1 THEN <<>>
        ELSE <<Len(co), Len(co[1]), Len(co[1][1])>>

\* whether x, y = np.array(coordinates).T completes: the transpose's first
\* axis, the array's last, must have length 2; otherwise ValueError
unpack_ok(road) ==
    LET sh == np_shape(road)
    IN  sh # <<>> /\ sh[Len(sh)] = 2

\* the lines ax.plot(x, y) draws: one for 1-D x and y, one per column for 2-D
\* x and y (x[r][k] is coordinates[k][r][0])
road_lines(road) ==
    LET co == road.coordinates
        sh == np_shape(road)
    IN  IF ~unpack_ok(road) THEN <<>>
        ELSE IF Len(sh) = 2
             THEN << [r \in 1..sh[1] |-> <<co[r][1], co[r][2]>>] >>
        ELSE [k \in 1..sh[1] |->
                 [r \in 1..sh[2] |-> <<co[k][r][1], co[k][r][2]>>]]

\* GeoJSON.plot_roads: every feature in turn, ValueError swallowed
RECURSIVE plot_roads(_)
plot_roads(features) ==
    IF features = <<>> THEN <<>>
    ELSE road_lines(Head(features)) \o plot_roads(Tail(features))

---------------------------------------------------------------------------
(* plot_spacenet. *)

\* the bounds overwritten by the latest tile instead of widened
update_bounds_last(b, extent) ==
    <<Fin(extent[1]), Fin(extent[2]), Fin(extent[3]), Fin(extent[4])>>

\* x_max and y_max widened from the minimum just assigned (max(x_min, ...))
update_bounds_typo(b, extent) ==
    LET xm == py_min(b[1], Fin(extent[1]))
        ym == py_min(b[3], Fin(extent[3]))
    IN  <<xm, py_max(xm, Fin(extent[2])), ym, py_max(ym, Fin(extent[4]))>>

\* the four "Update plotting bounds" assignments, b = <<x_min, x_max, y_min, y_max>>
update_bounds(b, extent) ==
    <<py_min(b[1], Fin(extent[1])),
      py_max(b[2], Fin(extent[2])),
      py_min(b[3], Fin(extent[3])),
      py_max(b[4], Fin(extent[4]))>>

\* for path in tqdm(tif_paths): tif = PAN(path=path) enters the constructor
OpenTif ==
    /\ pc = "tif_loop"
    /\ i < n_tif
    /\ \E f \in PanFiles : self' = post_init("PAN", f)
    /\ i' = i + 1
    /\ pc' = "construct"
    /\ UNCHANGED <<err, n_tif, n_json, j, tif, x_min, x_max, y_min, y_max, gj,
                   ax_images, ax_lines, xlim, ylim>>

\* the constructor returns and the name tif is bound
BindTif ==
    /\ pc = "construct"
    /\ self.step = "constructed"
    /\ tif' = self
    /\ self' = NoTile
    /\ pc' = "plot_bands"
    /\ UNCHANGED <<err, n_tif, n_json, i, j, x_min, x_max, y_min, y_max, gj,
                   ax_images, ax_lines, xlim, ylim>>

\* PAN.plot_bands: ax.imshow(self.bands[0], extent=self.extent)
PlotBands ==
    /\ pc = "plot_bands"
    /\ ax_images' = Append(ax_images, [A |-> tif.bands[1], extent |-> tif.extent])
    /\ pc' = "update_bounds"
    /\ UNCHANGED <<err, n_tif, n_json, i, j, self, tif, x_min, x_max, y_min,
                   y_max, gj, ax_lines, xlim, ylim>>

UpdateBounds ==
    /\ pc = "update_bounds"
    /\ LET b == update_bounds(<<x_min, x_max, y_min, y_max>>, tif.extent)
       IN  x_min' = b[1] /\ x_max' = b[2] /\ y_min' = b[3] /\ y_max' = b[4]
    /\ pc' = "del_tif"
    /\ UNCHANGED <<err, n_tif, n_json, i, j, self, tif, gj, ax_images,
                   ax_lines, xlim, ylim>>

\* the loop without its del tif: the name stays bound into the next iteration
DelTif_Missing ==
    /\ pc = "del_tif"
    /\ pc' = "tif_loop"
    /\ UNCHANGED <<err, n_tif, n_json, i, j, self, tif, x_min, x_max, y_min,
                   y_max, gj, ax_images, ax_lines, xlim, ylim>>

\* del tif
DelTif ==
    /\ pc = "del_tif"
    /\ tif' = NoTile
    /\ pc' = "tif_loop"
    /\ UNCHANGED <<err, n_tif, n_json, i, j, self, x_min, x_max, y_min, y_max,
                   gj, ax_images, ax_lines, xlim, ylim>>

\* tif_paths is exhausted
EndTifs ==
    /\ pc = "tif_loop"
    /\ i = n_tif
    /\ pc' = "json_loop"
    /\ UNCHANGED <<err, n_tif, n_json, i, j, self, tif, x_min, x_max, y_min,
                   y_max, gj, ax_images, ax_lines, xlim, ylim>>

\* for path in tqdm(json_paths): gj = GeoJSON(path=path)
ReadJson ==
    /\ pc = "json_loop"
    /\ j < n_json
    /\ \E features \in JsonPool : gj' = features
    /\ j' = j + 1
    /\ pc' = "plot_roads"
    /\ UNCHANGED <<err, n_tif, n_json, i, self, tif, x_min, x_max, y_min,
                   y_max, ax_images, ax_lines, xlim, ylim>>

\* gj.plot_roads(ax=ax)
PlotRoads ==
    /\ pc = "plot_roads"
    /\ ax_lines' = ax_lines \o plot_roads(gj)
    /\ pc' = "json_loop"
    /\ UNCHANGED <<err, n_tif, n_json, i, j, self, tif, x_min, x_max, y_min,
                   y_max, gj, ax_images, xlim, ylim>>

\* json_paths is exhausted
EndJsons ==
    /\ pc = "json_loop"
    /\ j = n_json
    /\ pc' = "format"
    /\ UNCHANGED <<err, n_tif, n_json, i, j, self, tif, x_min, x_max, y_min,
                   y_max, gj, ax_images, ax_lines, xlim, ylim>>

Finite(a) == a.inf = 0

\* ax.set_xlim(x_min, x_max); ax.set_ylim(y_min, y_max); figure.savefig(...).
\* No statement of plot_spacenet looks at the bounds before handing them over.
\* The axes themselves refuse a limit that is not finite (matplotlib raises
\* ValueError: Axis limits cannot be NaN or Inf); any finite pair is accepted,
\* whatever its order.
Format ==
    /\ pc = "format"
    /\ xlim' = <<x_min, x_max>>
    /\ IF Finite(x_min) /\ Finite(x_max)
       THEN /\ ylim' = <<y_min, y_max>>
            /\ IF Finite(y_min) /\ Finite(y_max)
               THEN pc' = "done" /\ err' = err
               ELSE pc' = "error" /\ err' = "ValueError"
       ELSE /\ ylim' = ylim
            /\ pc' = "error"
            /\ err' = "ValueError"
    /\ UNCHANGED <<n_tif, n_json, i, j, self, tif, x_min, x_max, y_min, y_max,
                   gj, ax_images, ax_lines>>

Init ==
    /\ pc = "tif_loop"
    /\ err = "none"
    /\ n_tif \in 0..MaxTiles
    /\ n_json \in 0..MaxJson
    /\ i = 0 /\ j = 0
    /\ self = NoTile /\ tif = NoTile
    /\ x_min = PosInf /\ x_max = NegInf /\ y_min = PosInf /\ y_max = NegInf
    /\ gj = <<>> /\ ax_images = <<>> /\ ax_lines = <<>>
    /\ xlim = <<>> /\ ylim = <<>>

Next ==
    \/ OpenTif
    \/ ProcGeotransform
    \/ ReadBands
    \/ BindTif
    \/ PlotBands
    \/ UpdateBounds
    \/ DelTif
    \/ EndTifs
    \/ ReadJson
    \/ PlotRoads
    \/ EndJsons
    \/ Format

Spec == Init /\ [][Next]_vars

---------------------------------------------------------------------------
(* Properties of a lone constructor (SpecTile). *)

Built(o) == o.kind # "none"

\* C1: whenever _proc_geotransform has run on a raster with geotransform
\* [x0, a, b, y0, c, d], RasterXSize W and RasterYSize H, the extent is
\* (x0, x0 + W*a + H*b, y0 + W*c + H*d, y0) in the order left, right, bottom,
\* top; the raster [100, 2, 0, 200, 0, -2], W = 10, H = 5 gets
\* (100, 120, 190, 200).
C1_Extent ==
    (Built(self) /\ self.step # "proc_geotransform") =>
        LET gt == self.gdata.GeoTransform
            W == self.gdata.RasterXSize
            H == self.gdata.RasterYSize
            left == gt[1]
            right == gt[1] + W * gt[2] + H * gt[3]
            bottom == gt[4] + W * gt[5] + H * gt[6]
            top == gt[4]
        IN  /\ self.extent = <<left, right, bottom, top>>
            /\ (gt = <<100, 2, 0, 200, 0, -2>> /\ W = 10 /\ H = 5) =>
                   self.extent = <<100, 120, 190, 200>>

C1_Witness ==
    /\ Built(self)
    /\ self.gdata = ExampleFile
    /\ self.step = "read_bands"
    /\ self.extent = <<100, 120, 190, 200>>

\* C10: constructing a tile from any readable raster, square or not,
\* succeeds, and the tile holds exactly RasterCount bands, band i being the
\* grid of raster band i+1 unchanged.
C10_ConstructionSucceeds ==
    /\ err = "none"
    /\ (Built(self) /\ self.step \in {"proc_rgb", "constructed"}) =>
           /\ Len(self.bands) = self.gdata.RasterCount
           /\ \A b \in 1..self.gdata.RasterCount :
                  self.bands[b] = ReadAsArray(self.gdata, b)

RgbDone(o) == Built(o) /\ o.kind = "PSRGB" /\ o.step = "constructed"

RawValues(o, b) ==
    {o.gdata.data[b][r][c] :
        r \in 1..o.gdata.RasterYSize, c \in 1..o.gdata.RasterXSize}

\* C3: in a multi-channel tile, a channel whose maximum equals its minimum
\* is normalized to finite values (all 0 or all 1/2), never to nan or inf.
C3_NoNanOrInf ==
    (RgbDone(self) /\ self.n_bands >= 2) =>
        \A b \in 1..self.n_bands :
            Cardinality(RawValues(self, b)) = 1 =>
                \A r \in 1..self.x_res, c \in 1..self.y_res :
                    /\ self.rgb[r][c][b].k = "fin"
                    /\ self.rgb[r][c][b] \in {Ratio(0, 1), Ratio(1, 2)}

\* C6: when no channel of the raster is constant, every normalized value is
\* (value - channelMin) / (channelMax - channelMin) for the minimum and
\* maximum of its own channel, lies in [0, 1], and each channel holds a 0 and
\* a 1.
C6_Normalized ==
    (RgbDone(self) /\ \A b \in 1..self.n_bands : Cardinality(RawValues(self, b)) > 1) =>
        \A b \in 1..self.n_bands :
            LET lo == SetMin(RawValues(self, b))
                hi == SetMax(RawValues(self, b))
                out == {self.rgb[r][c][b] : r \in 1..self.x_res, c \in 1..self.y_res}
            IN  /\ \A r \in 1..self.x_res, c \in 1..self.y_res :
                       LET v == self.rgb[r][c][b]
                       IN  /\ v.k = "fin"
                           /\ v.d > 0
                           /\ 0 <= v.n /\ v.n <= v.d
                           /\ v.n * (hi - lo) = (self.bands[b][r][c] - lo) * v.d
                /\ \E v \in out : v.n = 0
                /\ \E v \in out : v.n = v.d

C6_Witness ==
    /\ RgbDone(self)
    /\ self.n_bands = 2
    /\ \A b \in 1..2 : Cardinality(RawValues(self, b)) > 1
    /\ SetMin(RawValues(self, 1)) # SetMin(RawValues(self, 2))
    /\ \E r \in 1..self.x_res, c \in 1..self.y_res : self.rgb[r][c][2] = Ratio(1, 2)

---------------------------------------------------------------------------
(* Properties of plot_spacenet (Spec). *)

Sentinel == <<PosInf, NegInf, PosInf, NegInf>>
Bounds == <<x_min, x_max, y_min, y_max>>

RECURSIVE fold_all(_, _)
fold_all(b, extents) ==
    IF extents = <<>> THEN b
    ELSE fold_all(update_bounds(b, Head(extents)), Tail(extents))

\* the extents of the tiles rendered so far, in processing order
Extents == [k \in 1..Len(ax_images) |-> ax_images[k].extent]

AfterTifs == pc \in {"json_loop", "plot_roads", "format", "done"}

\* C2: once the tile loop has ended, the bounds are what folding the same
\* tile extents from {+inf, -inf, +inf, -inf} gives in every other order.
C2_OrderIndependent ==
    AfterTifs =>
        \A p \in Permutations(1..Len(ax_images)) :
            fold_all(Sentinel, [k \in 1..Len(ax_images) |-> Extents[p[k]]]) = Bounds

C2_Witness ==
    /\ pc = "done"
    /\ Len(ax_images) >= 2
    /\ Extents[1] # Extents[2]
    /\ x_min = Fin(Extents[2][1])
    /\ x_max = Fin(Extents[1][2])

\* C7: no step ever raises x_min or y_min or lowers x_max or y_max, and the
\* road loop leaves all four as they are.
C7_Monotone ==
    [][/\ Le(x_min', x_min) /\ Le(x_max, x_max')
       /\ Le(y_min', y_min) /\ Le(y_max, y_max')
       /\ pc \in {"json_loop", "plot_roads"} => Bounds' = Bounds]_vars

C7_Witness ==
    /\ pc = "format"
    /\ ax_lines # <<>>
    /\ Len(ax_images) >= 2
    /\ Lt(x_min, Fin(Extents[2][1]))
    /\ Lt(Fin(Extents[1][2]), x_max)

\* C9: once at least one tile is folded, the bounds are ordered
\* (xMin <= xMax, yMin <= yMax) and every folded tile's left and right lie in
\* [xMin, xMax] and its bottom and top in [yMin, yMax].
C9_BoundsOrdered ==
    (pc # "update_bounds" /\ Len(ax_images) >= 1) =>
        /\ Le(x_min, x_max)
        /\ Le(y_min, y_max)
        /\ \A k \in 1..Len(ax_images) :
               /\ Le(x_min, Fin(Extents[k][1])) /\ Le(Fin(Extents[k][1]), x_max)
               /\ Le(x_min, Fin(Extents[k][2])) /\ Le(Fin(Extents[k][2]), x_max)
               /\ Le(y_min, Fin(Extents[k][3])) /\ Le(Fin(Extents[k][3]), y_max)
               /\ Le(y_min, Fin(Extents[k][4])) /\ Le(Fin(Extents[k][4]), y_max)

\* C5: with no tile folded the bounds stay {+inf, -inf, +inf, -inf}, and a
\* range with min > max is never handed to the axes as a plot range.
C5_SentinelDetected ==
    /\ (AfterTifs /\ n_tif = 0) => Bounds = Sentinel
    /\ xlim # <<>> => ~Lt(xlim[2], xlim[1])
    /\ ylim # <<>> => ~Lt(ylim[2], ylim[1])

\* the polylines of the features whose coordinates are one flat list of points
RECURSIVE FlatPolylines(_)
FlatPolylines(features) ==
    IF features = <<>> THEN <<>>
    ELSE (IF Head(features).depth = 2
          THEN <<Head(features).coordinates>>
          ELSE <<>>) \o FlatPolylines(Tail(features))

\* C4: plotting a document draws, without raising, exactly one polyline per
\* flat feature, in document order, and nothing for a feature made of
\* sub-paths.
C4_MultipartSkipped ==
    [][pc = "plot_roads" =>
          /\ pc' # "error"
          /\ ax_lines' = ax_lines \o FlatPolylines(gj)]_vars

LiveTiles ==
    (IF Built(self) THEN 1 ELSE 0) + (IF Built(tif) THEN 1 ELSE 0)

\* C8 as stated: at most one tile object is live, a tile is loaded only after
\* the one before it is gone, and at the head of the tile loop nothing but the
\* bounds differs from the start of the run.
C8_OnlyBoundsCarried ==
    /\ LiveTiles <= 1
    /\ pc = "construct" => ~Built(tif)
    /\ pc = "tif_loop" =>
           /\ LiveTiles = 0
           /\ ax_images = <<>> /\ ax_lines = <<>> /\ gj = <<>>
           /\ xlim = <<>> /\ ylim = <<>>

\* C8, amended: at most one tile object is live, a tile is loaded only after
\* the one before it is gone, and at the head of the tile loop what differs
\* from the start of the run is the bounds and the axes, which hold one image
\* (band 0 and extent) for every tile processed so far.
C8_OneAtATime ==
    /\ LiveTiles <= 1
    /\ pc = "construct" => ~Built(tif)
    /\ pc = "tif_loop" =>
           /\ LiveTiles = 0
           /\ Len(ax_images) = i
           /\ Bounds = fold_all(Sentinel, Extents)
           /\ ax_lines = <<>> /\ gj = <<>>
           /\ xlim = <<>> /\ ylim = <<>>

C8_Witness ==
    /\ pc = "construct"
    /\ i = 2
    /\ self.step = "read_bands"
    /\ ~Built(tif)
    /\ Len(ax_images) = 1

====
